---- MODULE Spec2Model ----
(***************************************************************************)
(* Step counter logging face (stepcounter_logging_face.c): the three-page  *)
(* session state machine (Recording / Labeling / Chirping), the log writer *)
(* and the tick-driven chirp scheduler, as a state machine.                *)
(*                                                                         *)
(* The C functions are state transformers on a record w ("world") that     *)
(* gathers the face state, the chirp statics, the heap, the filesystem and *)
(* the hardware; an action builds w from the variables, applies the        *)
(* handler's transformer and commits the result.                           *)
(***************************************************************************)
EXTENDS Integers, Sequences, FiniteSets, TLC

VARIABLES
    state,           \* stepcounter_logging_state_t
    chirp_data_ptr,  \* static uint8_t *chirp_data_ptr   (0 is NULL)
    chirp_data_ix,   \* static uint16_t chirp_data_ix
    chirp_data_len,  \* static uint16_t chirp_data_len
    heap,            \* malloc/free: live blocks and their contents
    fs,              \* the filesystem: log.scl and the free space
    hw,              \* buzzer, requested tick frequency, accelerometer FIFO
    active,          \* the face is the visible one (between activate and resign)
    last,            \* history: the last entry point that changed the state, and the page and scheduler before it
    run,             \* history: the recording session in progress since its start
    faults,          \* history: the failures the environment has injected so far
    sample,          \* lis2dw_reading_t: the reading whose magnitude is taken
    norm             \* uint32_t mag of _log_data for that reading (-1: not taken yet)

vars == <<state, chirp_data_ptr, chirp_data_ix, chirp_data_len, heap, fs, hw, active, last, run, faults, sample, norm>>

(***************************************************************************)
(* Program constants                                                       *)
(***************************************************************************)
LOG_FILE_MARKER == 255
LOG_MAGIC_BYTES == 16931
LOG_VERSION == 1
ERROR_OPEN_FILE == 1
ERROR_READ_FILE == 2
ERROR_WRITE_HEADER == 3
ERROR_WRITE_DATA == 5
ERROR_ALLOC_MEM == 6
MIN_FS_SPACE == 512
LOG_DATA_XYZ == 1
LOG_DATA_MAG == 2
LOG_DATA_L1 == 4
PAGE_RECORDING == "Recording"
PAGE_LABELING == "Labeling"
PAGE_CHIRPING == "Chirping"
NULL == 0
\* tick_fun values (function pointers)
TF_NONE == "none"
TF_COUNTDOWN == "_chirp_countdown_tick"
TF_TRANSMIT == "_chirp_tick_transmit"
\* value lfs_file_write returns when it fails (a negative lfs error code)
LFS_ERR == -5
\* a byte whose value is indeterminate: uninitialised heap memory, or what a
\* read through a null or out-of-range pointer returns
UNDEF == -1

(***************************************************************************)
(* Bounds of the model                                                     *)
(***************************************************************************)
MaxFileLen == 17     \* bytes log.scl can grow to before a write fails
MaxFileLenLog == 27  \* the same, for the log-format runs
MaxBufs == 2         \* heap blocks malloc can hand out at the same time
MaxSteps == 11       \* pending step count the labeling inputs are cut at
MaxIndex == 2        \* sessions started before the recording inputs are cut
MaxWrites == 2       \* write-oracle value meaning "no write of this handler fails"
MaxFaults == 2       \* handlers in which the environment makes a call fail
MaxAxis == 16        \* largest absolute axis value of the samples a magnitude is taken of

\* The clock values the RTC returns (unix time, never 0) and the opaque
\* sensor snapshot lis2dw_get_state() fills in.
NowSet == {66051, 67305985}
NowShort == {66051}
DeviceState == <<18>>
\* Free-space readings on either side of the quota threshold.
FreeLevels == {MIN_FS_SPACE - 1, MIN_FS_SPACE}
\* The axis values the magnitude is taken over.
AxisValues == (-MaxAxis)..MaxAxis
\* Accelerometer readings (x, y, z), signed 16 bit.
Reading1 == [x |-> 3, y |-> -4, z |-> 0]
Reading2 == [x |-> -300, y |-> 100, z |-> 200]
\* A log file an earlier boot left behind: a session whose header write failed
\* after the magic bytes (0x4223, little endian).
OldLog == <<35, 66>>
\* FIFO contents a tick can find: the short set drives the recorder,
\* the long one the log-format runs.
BatchesShort == {<<>>, <<Reading2>>}
BatchesLong == {<<Reading1>>, <<Reading2, Reading1>>}

(***************************************************************************)
(* Integer helpers                                                         *)
(***************************************************************************)
Min(a, b) == IF a < b THEN a ELSE b

\* The n bytes of the unsigned value v in memory order (little endian target).
LE(v, n) == [i \in 1..n |-> (v \div (256 ^ (i - 1))) % 256]

\* int16 two's complement value as the unsigned 16-bit pattern fwrite sees.
U16(x) == x % 65536

\* 16-bit absolute value: mask = x >> 15; (x + mask) ^ mask.
\* y ^ -1 is bitwise not, -y - 1; y ^ 0 is y. The result is cut to uint16_t.
fast_abs16(x) ==
    LET mask == IF x < 0 THEN -1 ELSE 0
        sum == x + mask
    IN  (IF mask = -1 THEN -sum - 1 ELSE sum) % 65536

\* Approximate l2 norm: sort by three conditional swaps, then
\* ax + ((15 * ay) >> 4) + ((3 * az) >> 3).
fast_l2_norm(reading) ==
    LET ax0 == fast_abs16(reading.x)
        ay0 == fast_abs16(reading.y)
        az0 == fast_abs16(reading.z)
        ax1 == IF ax0 < ay0 THEN ay0 ELSE ax0
        ay1 == IF ax0 < ay0 THEN ax0 ELSE ay0
        ay2 == IF ay1 < az0 THEN az0 ELSE ay1
        az2 == IF ay1 < az0 THEN ay1 ELSE az0
        ax3 == IF ax1 < ay2 THEN ay2 ELSE ax1
        ay3 == IF ax1 < ay2 THEN ax1 ELSE ay2
    IN  ax3 + ((15 * ay3) \div 16) + ((3 * az2) \div 8)

\* Simple l1 norm.
fast_l1_norm(reading) ==
    fast_abs16(reading.x) + fast_abs16(reading.y) + fast_abs16(reading.z)

(***************************************************************************)
(* The world record                                                        *)
(***************************************************************************)
\* w.oracle: what the environment decides during one handler.
\*   wok   how many more lfs_file_write calls succeed (MaxWrites: all)
\*   open  lfs_file_open succeeds
\*   free  the free space left once the handler has written
\*   rm    lfs_remove succeeds
\*   mem   malloc finds memory
\*   rd    filesystem_read_file succeeds
\*   snd   movement_button_should_sound(), a setting of the watch
\*   now   the RTC time
World(o) ==
    [state |-> state, chirp_data_ptr |-> chirp_data_ptr,
     chirp_data_ix |-> chirp_data_ix, chirp_data_len |-> chirp_data_len,
     heap |-> heap, fs |-> fs, hw |-> hw,
     oracle |-> o, ret |-> 0, acc |-> 0, err |-> FALSE, byte |-> 0,
     sent |-> <<>>, failed |-> FALSE, cleared |-> FALSE]

Commit(w) ==
    /\ state' = w.state
    /\ chirp_data_ptr' = w.chirp_data_ptr
    /\ chirp_data_ix' = w.chirp_data_ix
    /\ chirp_data_len' = w.chirp_data_len
    /\ heap' = w.heap
    /\ fs' = w.fs
    /\ hw' = w.hw

(***************************************************************************)
(* Collaborators at their interface: filesystem, sound, heap               *)
(***************************************************************************)
\* w.ret is the value the last call returned, w.failed whether a filesystem
\* call of this handler has failed. Writes are taken as visible in the file
\* at once (the lfs caches are not modelled).

\* lfs_file_open(WRONLY | CREAT | APPEND): creates the file when missing;
\* a failed open leaves the handle closed.
lfs_file_open(w) ==
    IF w.oracle.open
    THEN [w EXCEPT !.state.file = "open", !.fs.exists = TRUE, !.ret = 0]
    ELSE [w EXCEPT !.state.file = "closed", !.ret = LFS_ERR, !.failed = TRUE]

\* lfs_file_write on the handle: appends all of bytes and returns their
\* number, or appends nothing and returns a negative error. It fails on a
\* handle that is not open, when the storage is used up, and when the
\* environment says so; after one failure the rest of the handler's writes
\* fail as well. A handle whose file has been removed takes the bytes and
\* loses them.
lfs_file_write(w, bytes) ==
    IF /\ w.state.file = "open"
       /\ w.oracle.wok > 0
       /\ w.fs.exists => Len(w.fs.data) + Len(bytes) <= w.fs.cap
    THEN [w EXCEPT !.fs.data = IF w.fs.exists THEN @ \o bytes ELSE @,
                   !.fs.free = Min(@, w.oracle.free),
                   !.oracle.wok = IF @ = MaxWrites THEN @ ELSE @ - 1,
                   !.ret = Len(bytes)]
    ELSE [w EXCEPT !.oracle.wok = 0, !.ret = LFS_ERR, !.failed = TRUE]

\* lfs_file_sync + lfs_file_close.
lfs_file_close(w) == [w EXCEPT !.state.file = "closed"]

\* lfs_remove: fails when there is no file, or when the environment says so.
lfs_remove(w) ==
    IF w.fs.exists /\ w.oracle.rm
    THEN [w EXCEPT !.fs.exists = FALSE, !.fs.data = <<>>,
                   !.fs.free = MIN_FS_SPACE, !.ret = 0]
    ELSE [w EXCEPT !.ret = LFS_ERR, !.failed = TRUE]

\* filesystem_read_file into the block p: the file's first n bytes, or a
\* failure that leaves the block as it was.
filesystem_read_file(w, p, n) ==
    IF w.oracle.rd /\ w.fs.exists
    THEN [w EXCEPT !.heap.mem[p] = [i \in 1..n |-> IF i <= Len(w.fs.data) THEN w.fs.data[i] ELSE UNDEF],
                   !.ret = 1]
    ELSE [w EXCEPT !.ret = 0, !.failed = TRUE]

\* lis2dw_clear_fifo: the pending samples are dropped; w.cleared records that
\* the handler has done so (what the next tick finds is the environment's).
lis2dw_clear_fifo(w) == [w EXCEPT !.cleared = TRUE]

watch_set_buzzer_on(w) == [w EXCEPT !.hw.buzzer = TRUE]
watch_set_buzzer_off(w) == [w EXCEPT !.hw.buzzer = FALSE]
movement_request_tick_frequency(w, f) == [w EXCEPT !.hw.tick_freq = f]

\* malloc(n): a block that is not live, its n bytes uninitialised, or NULL.
FreeBlocks(w) == (1..MaxBufs) \ w.heap.live
malloc(w, n) ==
    IF w.oracle.mem /\ FreeBlocks(w) # {}
    THEN LET p == CHOOSE b \in FreeBlocks(w) : \A c \in FreeBlocks(w) : b <= c
         IN  [w EXCEPT !.heap.live = @ \cup {p},
                       !.heap.mem[p] = [i \in 1..n |-> UNDEF],
                       !.ret = p]
    ELSE [w EXCEPT !.ret = NULL]

\* free: releasing a block that is not live is recorded as a bad free.
free(w, p) ==
    IF p \in w.heap.live
    THEN [w EXCEPT !.heap.live = @ \ {p}, !.heap.mem[p] = <<>>]
    ELSE [w EXCEPT !.heap.bad_free = TRUE]

(***************************************************************************)
(* Tone encoder (chirpy_tx), at its interface: a preamble, TonesPerByte    *)
(* tones for every byte the byte-supply callback hands over, a trailer     *)
(* once the callback reports the end, and then the sentinel 255.           *)
(***************************************************************************)
PreambleTones == 1
TonesPerByte == 2
TrailerTones == 1
TONE_END == 255
\* any tone code other than the sentinel
TONE == 0

\* _chirp_next_byte: returns 0 at the end of the buffer, else hands over
\* chirp_data_ptr[chirp_data_ix] and advances the cursor. w.ret is the flag,
\* w.byte the byte. A read through NULL or past the block yields UNDEF.
_chirp_next_byte(w) ==
    IF w.chirp_data_ix = w.chirp_data_len
    THEN [w EXCEPT !.ret = 0]
    ELSE LET p == w.chirp_data_ptr
             i == w.chirp_data_ix + 1
             b == IF p # NULL /\ p \in w.heap.live /\ i <= Len(w.heap.mem[p])
                  THEN w.heap.mem[p][i] ELSE UNDEF
         IN  [w EXCEPT !.byte = b,
                       !.chirp_data_ix = (@ + 1) % 65536,
                       !.ret = 1]

chirpy_init_encoder(w) ==
    [w EXCEPT !.state.chirpy_encoder_state = [tones |-> PreambleTones, eot |-> FALSE]]

\* chirpy_get_next_tone: w.ret is the tone code.
chirpy_get_next_tone(w) ==
    LET es == w.state.chirpy_encoder_state IN
    IF es.tones > 0
    THEN [w EXCEPT !.state.chirpy_encoder_state.tones = @ - 1, !.ret = TONE]
    ELSE IF es.eot
    THEN [w EXCEPT !.ret = TONE_END]
    ELSE LET w1 == _chirp_next_byte(w) IN
         IF w1.ret = 1
         THEN [w1 EXCEPT !.state.chirpy_encoder_state.tones = TonesPerByte - 1,
                         !.sent = Append(@, w1.byte),
                         !.ret = TONE]
         ELSE [w1 EXCEPT !.state.chirpy_encoder_state.tones = TrailerTones - 1,
                         !.state.chirpy_encoder_state.eot = TRUE,
                         !.ret = TONE]

(***************************************************************************)
(* Log writer                                                              *)
(***************************************************************************)
\* Play beep sound: watch_buzzer_play_note sounds the note and leaves the
\* buzzer off.
_beep(w) ==
    IF ~w.oracle.snd THEN w ELSE watch_set_buzzer_off(w)

\* Open log file
_log_open(w) ==
    LET w1 == lfs_file_open(w) IN
    IF w1.ret < 0 THEN [w1 EXCEPT !.state.error = ERROR_OPEN_FILE] ELSE w1

\* Close log file
_log_close(w) == lfs_file_close(w)

\* ret += lfs_file_write(...). The C sum is a uint32_t; it equals the expected
\* size exactly when the integer sum does, the values being far below 2^32.
WriteAdd(w, bytes) ==
    LET w1 == lfs_file_write(w, bytes) IN [w1 EXCEPT !.acc = @ + w1.ret]

\* The header's fields in writing order.
HeaderFields(w) ==
    << LE(LOG_MAGIC_BYTES, 2), <<LOG_VERSION>>, DeviceState,
       <<w.state.data_type>>, <<w.state.index>>, LE(w.state.start_ts, 4) >>

RECURSIVE WriteAll(_, _, _)
WriteAll(w, fields, i) ==
    IF i > Len(fields) THEN w ELSE WriteAll(WriteAdd(w, fields[i]), fields, i + 1)

RECURSIVE SumLen(_, _)
SumLen(fields, i) ==
    IF i > Len(fields) THEN 0 ELSE Len(fields[i]) + SumLen(fields, i + 1)

_start_recording(w) ==
    LET w1 == _log_open(lis2dw_clear_fifo(_beep(w)))
        w2 == [w1 EXCEPT !.state.start_ts = w.oracle.now, !.acc = 0]
        w3 == WriteAll(w2, HeaderFields(w2), 1)
        expected_size == SumLen(HeaderFields(w2), 1)
    IN  IF w3.acc # expected_size
        THEN [w3 EXCEPT !.state.error = ERROR_WRITE_HEADER]
        ELSE w3

\* Faulty variant of _stop_recording: the index is not advanced.
_stop_recording_same_index(w) ==
    LET w1 == _log_close(_beep(w))
    IN  [w1 EXCEPT !.state.start_ts = 0]

_stop_recording(w) ==
    LET w1 == _log_close(_beep(w))
    IN  [w1 EXCEPT !.state.start_ts = 0, !.state.index = (@ + 1) % 256]

\* Faulty variant of MagBuffer: the magnitude packed big-endian.
MagBufferBE(mag) ==
    << (mag \div 65536) % 256, (mag \div 256) % 256, mag % 256 >>

\* Pack magnitude into 3-byte buffer (little-endian)
MagBuffer(mag) ==
    << mag % 256, (mag \div 256) % 256, (mag \div 65536) % 256 >>

BitSet(flags, bit) == (flags \div bit) % 2 = 1

\* One pass of the loop body of _log_data for readings[cnt]: w.err is set
\* where the code takes "goto error".
LogReading(w, r) ==
    LET dt == w.state.data_type
        w1 == IF BitSet(dt, LOG_DATA_XYZ)
              THEN LET a == WriteAdd([w EXCEPT !.acc = 0], LE(U16(r.x), 2))
                       b == WriteAdd(a, LE(U16(r.y), 2))
                       c == WriteAdd(b, LE(U16(r.z), 2))
                   IN  IF c.acc # 3 * 2 THEN [c EXCEPT !.err = TRUE] ELSE c
              ELSE w
    IN  IF w1.err \/ ~BitSet(dt, LOG_DATA_MAG)
        THEN w1
        ELSE LET mag == IF BitSet(dt, LOG_DATA_L1)
                        THEN fast_l1_norm(r) ELSE fast_l2_norm(r)
                 w2 == lfs_file_write(w1, MagBuffer(mag))
             IN  IF w2.ret # 3 THEN [w2 EXCEPT !.err = TRUE] ELSE w2

RECURSIVE LogReadings(_, _, _)
LogReadings(w, fifo, cnt) ==
    IF cnt > Len(fifo) \/ w.err
    THEN w
    ELSE LogReadings(LogReading(w, fifo[cnt]), fifo, cnt + 1)

_log_data(w, fifo) ==
    IF Len(fifo) = 0
    THEN w
    ELSE LET w1 == lfs_file_write(w, <<Len(fifo)>>)
             w2 == IF w1.ret # 1 THEN [w1 EXCEPT !.err = TRUE]
                   ELSE LogReadings(w1, fifo, 1)
         IN  IF w2.err
             THEN [w2 EXCEPT !.state.error = ERROR_WRITE_DATA, !.err = FALSE]
             ELSE w2

\* Faulty variant of _log_steps: the pending step count is not reset.
_log_steps_keeps_steps(w) ==
    LET w1 == _log_open(w)
        w2 == lfs_file_write(w1, <<LOG_FILE_MARKER>>)
        w3 == lfs_file_write(w2, LE(w2.state.steps, 2))
    IN  IF w2.ret # 1
        THEN [w2 EXCEPT !.state.error = ERROR_WRITE_DATA]
        ELSE IF w3.ret # 2
        THEN [w3 EXCEPT !.state.error = ERROR_WRITE_DATA]
        ELSE _log_close(w3)

_log_steps(w) ==
    LET w1 == _log_open(w)
        w2 == lfs_file_write(w1, <<LOG_FILE_MARKER>>)
        w3 == lfs_file_write(w2, LE(w2.state.steps, 2))
    IN  IF w2.ret # 1
        THEN [w2 EXCEPT !.state.error = ERROR_WRITE_DATA]
        ELSE IF w3.ret # 2
        THEN [w3 EXCEPT !.state.error = ERROR_WRITE_DATA]
        ELSE [_log_close(w3) EXCEPT !.state.steps = 0]

\* Faulty variant of _delete_log_file: a failing remove is reported.
_delete_log_file_reports(w) ==
    LET w1 == lfs_remove(w) IN
    IF w1.ret < 0 THEN [w1 EXCEPT !.state.error = ERROR_OPEN_FILE] ELSE w1

_delete_log_file(w) == lfs_remove(w)

(***************************************************************************)
(* Chirp scheduler                                                         *)
(***************************************************************************)
\* Faulty variant of _chirp_quit: the pointer is not reset after the free.
_chirp_quit_keeps_ptr(w) ==
    LET w1 == movement_request_tick_frequency(watch_set_buzzer_off(w), 1)
        w2 == [w1 EXCEPT !.state.chirping = FALSE]
        w3 == IF w2.chirp_data_ptr # NULL THEN free(w2, w2.chirp_data_ptr) ELSE w2
    IN  [w3 EXCEPT !.chirp_data_ix = 0,
                   !.chirp_data_len = 0]

_chirp_quit(w) ==
    LET w1 == movement_request_tick_frequency(watch_set_buzzer_off(w), 1)
        w2 == [w1 EXCEPT !.state.chirping = FALSE]
        w3 == IF w2.chirp_data_ptr # NULL THEN free(w2, w2.chirp_data_ptr) ELSE w2
    IN  [w3 EXCEPT !.chirp_data_ptr = NULL,
                   !.chirp_data_ix = 0,
                   !.chirp_data_len = 0]

\* Faulty variant of _chirp_tick_transmit: the sentinel only silences the
\* buzzer, the transmission is not ended.
_chirp_tick_transmit_no_quit(w) ==
    LET w1 == chirpy_get_next_tone(w) IN
    IF w1.ret = TONE_END
    THEN watch_set_buzzer_off(w1)
    ELSE watch_set_buzzer_on(w1)

_chirp_tick_transmit(w) ==
    LET w1 == chirpy_get_next_tone(w) IN
    IF w1.ret = TONE_END
    THEN _chirp_quit(w1)
    ELSE watch_set_buzzer_on(w1)

_load_log_file(w) ==
    IF ~w.fs.exists
    THEN [w EXCEPT !.state.error = ERROR_OPEN_FILE]
    ELSE LET w1 == [w EXCEPT !.chirp_data_len = Len(w.fs.data) % 65536]
             w2 == malloc(w1, w1.chirp_data_len)
             w3 == [w2 EXCEPT !.chirp_data_ptr = w2.ret]
             w4 == filesystem_read_file(w3, w3.chirp_data_ptr, w3.chirp_data_len)
         IN  IF w3.chirp_data_ptr = NULL
             THEN [w3 EXCEPT !.state.error = ERROR_ALLOC_MEM]
             ELSE IF w4.ret = 0
             THEN [w4 EXCEPT !.state.error = ERROR_READ_FILE]
             ELSE w4

\* Faulty variant of _chirp_countdown_tick: the countdown ends after two
\* repeats of the alert pattern.
_chirp_countdown_tick_two_repeats(w) ==
    LET ts == w.state.chirpy_tick_state IN
    IF ts.seq_pos = 8 * 2
    THEN LET w1 == [w EXCEPT !.state.chirpy_tick_state.tick_compare = 3,
                             !.state.chirpy_tick_state.tick_count = -1,
                             !.state.chirpy_tick_state.seq_pos = 0]
             w2 == chirpy_init_encoder(w1)
             w3 == [w2 EXCEPT !.state.chirpy_tick_state.tick_fun = TF_TRANSMIT]
         IN  _load_log_file(w3)
    ELSE LET w1 == IF ts.seq_pos % 8 = 0 THEN watch_set_buzzer_on(w)
                   ELSE IF ts.seq_pos % 8 = 1 THEN watch_set_buzzer_off(w)
                   ELSE w
         IN  [w1 EXCEPT !.state.chirpy_tick_state.seq_pos = @ + 1]

_chirp_countdown_tick(w) ==
    LET ts == w.state.chirpy_tick_state IN
    IF ts.seq_pos = 8 * 3
    THEN LET w1 == [w EXCEPT !.state.chirpy_tick_state.tick_compare = 3,
                             !.state.chirpy_tick_state.tick_count = -1,
                             !.state.chirpy_tick_state.seq_pos = 0]
             w2 == chirpy_init_encoder(w1)
             w3 == [w2 EXCEPT !.state.chirpy_tick_state.tick_fun = TF_TRANSMIT]
         IN  _load_log_file(w3)
    ELSE LET w1 == IF ts.seq_pos % 8 = 0 THEN watch_set_buzzer_on(w)
                   ELSE IF ts.seq_pos % 8 = 1 THEN watch_set_buzzer_off(w)
                   ELSE w
         IN  [w1 EXCEPT !.state.chirpy_tick_state.seq_pos = @ + 1]

\* Faulty variant of _chrip_setup: the frequent callbacks are not requested.
_chrip_setup_keeps_rate(w) ==
    [w EXCEPT !.state.chirping = TRUE,
              !.state.chirpy_tick_state.tick_count = -1,
              !.state.chirpy_tick_state.tick_compare = 8,
              !.state.chirpy_tick_state.seq_pos = 0,
              !.state.chirpy_tick_state.tick_fun = TF_COUNTDOWN]

_chrip_setup(w) ==
    LET w1 == movement_request_tick_frequency(w, 64) IN
    [w1 EXCEPT !.state.chirping = TRUE,
               !.state.chirpy_tick_state.tick_count = -1,
               !.state.chirpy_tick_state.tick_compare = 8,
               !.state.chirpy_tick_state.seq_pos = 0,
               !.state.chirpy_tick_state.tick_fun = TF_COUNTDOWN]

\* state->chirpy_tick_state.tick_fun(context)
CallTickFun(w) ==
    IF w.state.chirpy_tick_state.tick_fun = TF_COUNTDOWN THEN _chirp_countdown_tick(w)
    ELSE IF w.state.chirpy_tick_state.tick_fun = TF_TRANSMIT THEN _chirp_tick_transmit(w)
    ELSE w

(***************************************************************************)
(* Pages                                                                   *)
(***************************************************************************)
_switch_to_labeling(w) ==
    _beep([movement_request_tick_frequency(w, 4) EXCEPT !.state.page = PAGE_LABELING])

_switch_to_recording(w) ==
    _beep([movement_request_tick_frequency(w, 1) EXCEPT !.state.page = PAGE_RECORDING])

\* Faulty variant of _switch_to_chirping: entering the page starts the
\* countdown.
_switch_to_chirping_starts(w) ==
    _chrip_setup(_beep([movement_request_tick_frequency(w, 1) EXCEPT !.state.page = PAGE_CHIRPING]))

_switch_to_chirping(w) ==
    _beep([movement_request_tick_frequency(w, 1) EXCEPT !.state.page = PAGE_CHIRPING])

\* Faulty variant of _enforce_quota: the page is switched, the session is
\* not stopped.
_enforce_quota_no_stop(w) ==
    IF w.fs.free < MIN_FS_SPACE
    THEN _switch_to_labeling(w)
    ELSE w

\* filesystem_get_free_space() < MIN_FS_SPACE
_enforce_quota(w) ==
    IF w.fs.free < MIN_FS_SPACE
    THEN _switch_to_labeling(_stop_recording(w))
    ELSE w

Events ==
    { "EVENT_ACTIVATE", "EVENT_TICK", "EVENT_LIGHT_BUTTON_DOWN",
      "EVENT_LIGHT_LONG_PRESS", "EVENT_ALARM_BUTTON_DOWN",
      "EVENT_ALARM_BUTTON_UP", "EVENT_ALARM_LONG_PRESS", "EVENT_MODE_BUTTON_UP" }

\* fifo is what lis2dw_read_fifo finds on this tick.
_recording_loop(w, event, fifo) ==
    CASE event = "EVENT_TICK" ->
            IF w.state.start_ts # 0
            THEN _enforce_quota(lis2dw_clear_fifo(_log_data(w, fifo)))
            ELSE w
      [] event = "EVENT_ALARM_BUTTON_UP" ->
            IF w.state.start_ts = 0
            THEN _start_recording(w)
            ELSE _switch_to_labeling(_stop_recording(w))
      [] event = "EVENT_ALARM_LONG_PRESS" -> _switch_to_chirping(w)
      [] OTHER -> w

_labeling_loop(w, event) ==
    CASE event = "EVENT_LIGHT_BUTTON_DOWN" ->
            [w EXCEPT !.state.steps = IF @ > 0 THEN @ - 1 ELSE 0]
      [] event = "EVENT_ALARM_BUTTON_DOWN" ->
            [w EXCEPT !.state.steps = (@ + 10) % 65536]
      [] event = "EVENT_MODE_BUTTON_UP" -> _switch_to_recording(_log_steps(w))
      [] OTHER -> w

_chirping_loop(w, event) ==
    CASE event \in {"EVENT_ACTIVATE", "EVENT_TICK"} ->
            IF w.state.chirping
            THEN LET w1 == [w EXCEPT !.state.chirpy_tick_state.tick_count = @ + 1] IN
                 IF w1.state.chirpy_tick_state.tick_count = w1.state.chirpy_tick_state.tick_compare
                 THEN CallTickFun([w1 EXCEPT !.state.chirpy_tick_state.tick_count = 0])
                 ELSE w1
            ELSE w
      [] event = "EVENT_LIGHT_LONG_PRESS" ->
            _switch_to_recording(_delete_log_file(
                IF w.state.chirping THEN _chirp_quit(w) ELSE w))
      [] event = "EVENT_MODE_BUTTON_UP" ->
            _switch_to_recording(IF w.state.chirping THEN _chirp_quit(w) ELSE w)
      [] event = "EVENT_ALARM_BUTTON_UP" -> _chrip_setup(w)
      [] OTHER -> w

stepcounter_logging_face_loop(w, event, fifo) ==
    CASE w.state.page = PAGE_LABELING -> _labeling_loop(w, event)
      [] w.state.page = PAGE_CHIRPING -> _chirping_loop(w, event)
      [] OTHER -> _recording_loop(w, event, fifo)

stepcounter_logging_face_activate(w) ==
    [w EXCEPT !.state.error = 0, !.hw.fifo = TRUE]

stepcounter_logging_face_resign(w) ==
    LET w1 == IF w.state.start_ts # 0 THEN _stop_recording(w) ELSE w
        w2 == IF w1.state.chirping THEN _chirp_quit(w1) ELSE w1
    IN  [w2 EXCEPT !.hw.fifo = FALSE]

(***************************************************************************)
(* The state machine                                                       *)
(***************************************************************************)
\* The scheduler's state, read off the face state.
Sched(st) ==
    IF ~st.chirping THEN "Idle"
    ELSE IF st.chirpy_tick_state.tick_fun = TF_TRANSMIT THEN "Transmitting"
    ELSE "Countdown"

NoRun == [phase |-> "none", off |-> 0, index |-> 0, start_ts |-> 0, blocks |-> <<>>, steps |-> 0]

\* stepcounter_logging_face_setup on a fresh context (memset 0), the chirp
\* statics zero-initialised; the log file may or may not exist yet, and the
\* storage lets it grow to cap bytes.
InitWith(cap, contents, frees) ==
    /\ state = [start_ts |-> 0, data_type |-> LOG_DATA_MAG, index |-> 1,
                error |-> 0, steps |-> 0, page |-> PAGE_RECORDING,
                file |-> "closed",
                chirpy_tick_state |-> [tick_count |-> 0, tick_compare |-> 0,
                                       seq_pos |-> 0, tick_fun |-> TF_NONE],
                chirpy_encoder_state |-> [tones |-> 0, eot |-> FALSE],
                chirping |-> FALSE]
    /\ chirp_data_ptr = NULL
    /\ chirp_data_ix = 0
    /\ chirp_data_len = 0
    /\ heap = [live |-> {}, mem |-> [b \in 1..MaxBufs |-> <<>>], bad_free |-> FALSE]
    /\ fs \in {[exists |-> d # <<>> \/ e, data |-> d, free |-> f, cap |-> cap] :
                    e \in BOOLEAN, d \in contents, f \in frees}
    /\ hw = [buzzer |-> FALSE, tick_freq |-> 1, fifo |-> FALSE]
    /\ active = FALSE
    /\ last = [ev |-> "setup", page |-> PAGE_RECORDING, sched |-> "Idle"]
    /\ run = NoRun
    /\ faults = 0

\* No magnitude is being taken.
NoSample == sample = Reading1 /\ norm = -1

Init == InitWith(MaxFileLen, {<<>>}, FreeLevels) /\ NoSample
InitLog == InitWith(MaxFileLenLog, {<<>>}, FreeLevels) /\ NoSample
InitChirp == InitWith(MaxFileLen, {<<>>, OldLog}, {MIN_FS_SPACE}) /\ NoSample

\* The oracle when the environment lets every call succeed.
Calm ==
    [wok |-> MaxWrites, open |-> TRUE, free |-> MIN_FS_SPACE, rm |-> TRUE,
     mem |-> TRUE, rd |-> TRUE, snd |-> TRUE, now |-> CHOOSE t \in NowShort : TRUE]

\* The oracles of a handler: the calls it makes are the ones that vary.
\* env "rough": any filesystem call of the log writer may fail; "load": the
\* allocation and the read of the transmission buffer may fail; "calm": a
\* write fails only when the storage is used up; "clock": calm, with the
\* clock showing any time of NowSet.
EnvOracles(event, env) ==
    LET pg == state.page
        woks == IF env = "rough" THEN 0..MaxWrites ELSE {MaxWrites}
        opens == IF env = "rough" THEN BOOLEAN ELSE {TRUE}
        nows == IF env = "clock" THEN NowSet ELSE NowShort
        loads == IF env = "load" THEN BOOLEAN ELSE {TRUE}
    IN
    CASE event = "EVENT_TICK" /\ pg = PAGE_RECORDING /\ state.start_ts # 0 ->
            {[Calm EXCEPT !.wok = k, !.free = f] : k \in woks, f \in FreeLevels}
      [] event = "EVENT_TICK" /\ pg = PAGE_CHIRPING /\ state.chirping ->
            {[Calm EXCEPT !.mem = m, !.rd = r] : m \in loads, r \in loads}
      [] event = "EVENT_ALARM_BUTTON_UP" /\ pg = PAGE_RECORDING /\ state.start_ts = 0 ->
            {[Calm EXCEPT !.wok = k, !.open = op, !.free = f, !.now = t] :
                k \in woks, op \in opens, f \in FreeLevels, t \in nows}
      [] event = "EVENT_MODE_BUTTON_UP" /\ pg = PAGE_LABELING ->
            {[Calm EXCEPT !.wok = k, !.open = op, !.free = f] :
                k \in woks, op \in opens, f \in FreeLevels}
      [] event = "EVENT_LIGHT_LONG_PRESS" /\ pg = PAGE_CHIRPING ->
            {[Calm EXCEPT !.rm = r] : r \in BOOLEAN}
      [] OTHER -> {Calm}

\* The environment makes a call of the log writer fail.
Faulty(o) == o.wok < MaxWrites \/ ~o.open

\* The history of the session being recorded: start, ticks, stop, labeling,
\* commit, each without a failed filesystem call; anything else ends it.
RunNext(event, w0, w1, fifo) ==
    LET pg == w0.state.page
        same == /\ w1.state = w0.state /\ w1.fs = w0.fs IN
    CASE pg = PAGE_RECORDING /\ event = "EVENT_ALARM_BUTTON_UP" /\ w0.state.start_ts = 0 ->
            IF w1.failed THEN NoRun
            ELSE [phase |-> "rec", off |-> Len(w0.fs.data), index |-> w1.state.index,
                  start_ts |-> w1.state.start_ts, blocks |-> <<>>, steps |-> 0]
      [] pg = PAGE_RECORDING /\ event = "EVENT_TICK" /\ run.phase = "rec" ->
            IF w1.failed THEN NoRun
            ELSE [run EXCEPT !.blocks = IF fifo = <<>> THEN @ ELSE Append(@, fifo),
                             !.phase = IF w1.state.page = PAGE_LABELING THEN "label" ELSE @]
      [] pg = PAGE_RECORDING /\ event = "EVENT_ALARM_BUTTON_UP" /\ run.phase = "rec" ->
            [run EXCEPT !.phase = "label"]
      [] pg = PAGE_LABELING /\ event = "EVENT_MODE_BUTTON_UP" /\ run.phase = "label" ->
            IF w1.failed THEN NoRun
            ELSE [run EXCEPT !.phase = "done", !.steps = w0.state.steps]
      [] pg = PAGE_LABELING /\ run.phase = "label"
         /\ event \in {"EVENT_TICK", "EVENT_LIGHT_BUTTON_DOWN", "EVENT_ALARM_BUTTON_DOWN"} ->
            run
      [] OTHER -> IF same /\ run.phase # "done" THEN run ELSE NoRun

\* The handler changed the program's state.
Changed(w0, w1) ==
    \/ w1.state # w0.state
    \/ w1.fs # w0.fs
    \/ w1.hw # w0.hw
    \/ w1.heap # w0.heap
    \/ w1.chirp_data_ptr # w0.chirp_data_ptr
    \/ w1.chirp_data_ix # w0.chirp_data_ix
    \/ w1.chirp_data_len # w0.chirp_data_len

\* One event delivered to stepcounter_logging_face_loop.
Handle(event, fifo, env) ==
    /\ active
    /\ \E o \in EnvOracles(event, env) :
         /\ Faulty(o) => faults < MaxFaults
         /\ faults' = IF Faulty(o) THEN faults + 1 ELSE faults
         /\ LET w0 == World(o)
                w1 == stepcounter_logging_face_loop(w0, event, fifo)
            IN  /\ Commit(w1)
                /\ last' = IF Changed(w0, w1)
                           THEN [ev |-> event, page |-> state.page, sched |-> Sched(state)]
                           ELSE last
                /\ run' = IF env = "rough" THEN NoRun ELSE RunNext(event, w0, w1, fifo)
    /\ active' = active
    /\ UNCHANGED <<sample, norm>>

\* The host makes the face visible: activate, then EVENT_ACTIVATE.
Activate ==
    /\ ~active
    /\ LET w0 == World(Calm)
           w1 == stepcounter_logging_face_loop(
                     stepcounter_logging_face_activate(w0), "EVENT_ACTIVATE", <<>>)
       IN  Commit(w1)
    /\ active' = TRUE
    /\ last' = [ev |-> "activate", page |-> state.page, sched |-> Sched(state)]
    /\ run' = NoRun
    /\ faults' = faults
    /\ UNCHANGED <<sample, norm>>

\* The host leaves the face (mode button in Recording, timeout, ...).
Resign ==
    /\ active
    /\ Commit(stepcounter_logging_face_resign(World(Calm)))
    /\ active' = FALSE
    /\ last' = [ev |-> "resign", page |-> state.page, sched |-> Sched(state)]
    /\ run' = NoRun
    /\ faults' = faults
    /\ UNCHANGED <<sample, norm>>

Tick(batches, env) == \E fifo \in batches : Handle("EVENT_TICK", fifo, env)

\* Sessions are started MaxIndex times at most.
AlarmButtonUp(env) ==
    /\ (state.page = PAGE_RECORDING /\ state.start_ts = 0) => state.index <= MaxIndex
    /\ Handle("EVENT_ALARM_BUTTON_UP", <<>>, env)

AlarmLongPress == Handle("EVENT_ALARM_LONG_PRESS", <<>>, "calm")

\* The pending step count is entered up to MaxSteps.
AlarmButtonDown ==
    /\ state.page = PAGE_LABELING => state.steps + 10 <= MaxSteps
    /\ Handle("EVENT_ALARM_BUTTON_DOWN", <<>>, "calm")

LightButtonDown == Handle("EVENT_LIGHT_BUTTON_DOWN", <<>>, "calm")

LightLongPress == Handle("EVENT_LIGHT_LONG_PRESS", <<>>, "calm")

\* In Recording the mode button is the host's: it leads to Resign.
ModeButtonUp(env) ==
    /\ state.page # PAGE_RECORDING
    /\ Handle("EVENT_MODE_BUTTON_UP", <<>>, env)

\* The recorder in a rough environment: sessions, commits, page switches and
\* the host's activate/resign, with filesystem calls that may fail. The step
\* count is entered in NextLog, transmissions are started in NextChirp.
Next ==
    \/ Activate
    \/ Resign
    \/ Tick(BatchesShort, "rough")
    \/ (state.page # PAGE_CHIRPING /\ AlarmButtonUp("rough"))
    \/ AlarmLongPress
    \/ LightLongPress
    \/ ModeButtonUp("rough")

\* Recording and labeling sessions with longer batches, in a calm environment.
NextLog ==
    \/ Activate
    \/ Tick(BatchesLong, "clock")
    \/ AlarmButtonUp("clock")
    \/ AlarmButtonDown
    \/ LightButtonDown
    \/ ModeButtonUp("clock")

\* The chirp scheduler on a log file left by earlier sessions: transmissions
\* are started, restarted and cancelled at any tick; nothing is recorded.
NextChirp ==
    \/ Activate
    \/ Tick({<<>>}, "calm")
    \/ (state.page = PAGE_CHIRPING /\ AlarmButtonUp("calm"))
    \/ AlarmLongPress
    \/ LightLongPress
    \/ ModeButtonUp("calm")

\* A transmission left to run: it is started from Idle and neither cancelled
\* nor restarted; loading the buffer may fail.
StartChirp == state.page = PAGE_CHIRPING /\ ~state.chirping /\ AlarmButtonUp("calm")
ChirpTick == Tick({<<>>}, "load")
NextLive ==
    \/ Activate
    \/ AlarmLongPress
    \/ StartChirp
    \/ ChirpTick

\* The magnitude of one sample, as _log_data takes it for a reading of the
\* FIFO when the L1 flag is not set; the samples range over AxisValues.
NormSamples == [x : AxisValues, y : AxisValues, z : AxisValues]
InitNorm ==
    /\ InitWith(MaxFileLen, {<<>>}, {MIN_FS_SPACE})
    /\ ~fs.exists
    /\ sample \in NormSamples
    /\ norm = -1
Magnitude ==
    /\ norm = -1
    /\ norm' = fast_l2_norm(sample)
    /\ UNCHANGED <<state, chirp_data_ptr, chirp_data_ix, chirp_data_len, heap,
                   fs, hw, active, last, run, faults, sample>>
NextNorm == Magnitude

Spec == Init /\ [][Next]_vars
SpecLog == InitLog /\ [][NextLog]_vars
SpecChirp == InitChirp /\ [][NextChirp]_vars
SpecNorm == InitNorm /\ [][NextNorm]_vars
\* movement delivers EVENT_TICK at the requested rate for as long as the face
\* is the active one.
SpecLive == InitChirp /\ [][NextLive]_vars /\ WF_vars(ChirpTick)

(***************************************************************************)
(* Properties                                                              *)
(***************************************************************************)
Max(a, b) == IF a > b THEN a ELSE b

\* What stepcounter_logging_face_loop makes of the current state when the
\* event arrives now, under the oracle o.
After(event, fifo, o) == stepcounter_logging_face_loop(World(o), event, fifo)

\* The scheduler at rest: no sound, no buffer, the 1 Hz tick requested.
Released(w) ==
    /\ ~w.state.chirping
    /\ ~w.hw.buzzer
    /\ w.chirp_data_ptr = NULL
    /\ w.chirp_data_len = 0
    /\ w.chirp_data_ix = 0
    /\ w.hw.tick_freq = 1

Here == World(Calm)

\* C1: in Labeling, for every pending step count s, LIGHT button down sets
\* steps to max(s - 10, 0) and ALARM button down sets steps to s + 1; the
\* page stays Labeling in both cases.
C1_StepInputs ==
    (active /\ state.page = PAGE_LABELING) =>
        LET light == After("EVENT_LIGHT_BUTTON_DOWN", <<>>, Calm)
            alarm == After("EVENT_ALARM_BUTTON_DOWN", <<>>, Calm)
        IN  /\ light.state.steps = Max(state.steps - 10, 0)
            /\ alarm.state.steps = state.steps + 1
            /\ light.state.page = PAGE_LABELING
            /\ alarm.state.page = PAGE_LABELING

\* C2: once a transmission has been started and ticks keep coming, with no
\* cancel and no restart, the scheduler eventually is Idle again, and the step
\* that makes it Idle leaves the sound off, the buffer released (pointer
\* null, length 0, cursor 0) and the 1 Hz tick rate requested.
C2_TransmissionCompletes ==
    /\ state.chirping ~> ~state.chirping
    /\ [][(state.chirping /\ ~state'.chirping) =>
            /\ ~hw'.buzzer
            /\ chirp_data_ptr' = NULL
            /\ chirp_data_len' = 0
            /\ chirp_data_ix' = 0
            /\ hw'.tick_freq = 1
            /\ heap'.live = heap.live \ {chirp_data_ptr}]_vars

\* A transmission of a loaded buffer has run to its end.
C2_Completed ==
    /\ last.ev = "EVENT_TICK"
    /\ last.sched = "Transmitting"
    /\ Released(Here)
    /\ fs.data # <<>>
    /\ state.error = 0

\* C3: _chirp_quit invoked from any scheduler state, then again, then a third
\* time, yields the same terminal state each time (Idle, pointer null, length
\* 0, cursor 0, sound off, 1 Hz requested); the buffer is freed by the first
\* invocation only, and no block is freed twice.
C3_CancelIdempotent ==
    LET q1 == _chirp_quit(Here)
        q2 == _chirp_quit(q1)
        q3 == _chirp_quit(q2)
    IN  /\ Released(q1)
        /\ q2 = q1
        /\ q3 = q1
        /\ q1.heap.live = heap.live \ {chirp_data_ptr}
        /\ ~q3.heap.bad_free

\* A transmission with a loaded buffer is under way: the state the cancel
\* is invoked from.
C3_Transmitting ==
    /\ Sched(state) = "Transmitting"
    /\ chirp_data_ptr \in heap.live
    /\ chirp_data_ix > 0

\* The tick that ended the countdown has just run: the buffer load was tried.
JustLoaded ==
    /\ last.ev = "EVENT_TICK"
    /\ last.sched = "Countdown"
    /\ state.chirpy_tick_state.tick_fun = TF_TRANSMIT
    /\ state.chirpy_tick_state.tick_count = -1

\* ... and it failed: no file, no memory, or the file was not read.
LoadFailed ==
    \/ ~fs.exists
    \/ chirp_data_ptr = NULL
    \/ (chirp_data_ptr # NULL /\ heap.mem[chirp_data_ptr] # fs.data)

\* C4: when the countdown reaches its limit and loading the log file fails,
\* the error code is set and the transmission is aborted: the scheduler is
\* Idle with the buffer released and cursor and length reset.
C4_LoadFailureAborts ==
    (JustLoaded /\ LoadFailed) => (state.error # 0 /\ Released(Here))

\* The data block of one batch in the layout of the log: a count byte, then
\* per sample the 3-byte little-endian magnitude (magnitude-only flags).
RECURSIVE Flatten(_, _)
Flatten(seqs, i) ==
    IF i > Len(seqs) THEN <<>> ELSE seqs[i] \o Flatten(seqs, i + 1)

ExpectedBlock(fifo) ==
    <<Len(fifo)>> \o Flatten([k \in 1..Len(fifo) |-> LE(fast_l2_norm(fifo[k]), 3)], 1)

\* A Recording tick arrives with the free storage below the threshold.
QuotaTickDue ==
    /\ active
    /\ state.page = PAGE_RECORDING
    /\ state.start_ts # 0
    /\ fs.free < MIN_FS_SPACE

\* C5 as stated: with the free storage below 512 bytes before a Recording
\* tick, the tick's handler ends the session (file closed, start_ts = 0) and
\* switches to Labeling without appending anything to the log.
C5_QuotaNoBlock ==
    QuotaTickDue =>
        \A fifo \in BatchesLong : \A o \in EnvOracles("EVENT_TICK", "clock") :
            LET w1 == After("EVENT_TICK", fifo, o)
            IN  /\ w1.state.start_ts = 0
                /\ w1.state.file = "closed"
                /\ w1.state.page = PAGE_LABELING
                /\ w1.fs.data = fs.data

\* C5 amended: with the free storage below 512 bytes before a Recording
\* tick, the tick's handler first logs the tick's batch and then ends the
\* session (file closed, start_ts = 0) and switches to Labeling; when the
\* writes of the tick succeed, exactly the batch's complete data block has
\* been appended, and when one fails the error code is WriteData.
C5_QuotaAfterBlock ==
    QuotaTickDue =>
        \A fifo \in BatchesLong : \A o \in EnvOracles("EVENT_TICK", "clock") :
            LET w1 == After("EVENT_TICK", fifo, o)
            IN  /\ w1.state.start_ts = 0
                /\ w1.state.file = "closed"
                /\ w1.state.page = PAGE_LABELING
                /\ IF w1.failed
                   THEN w1.state.error = ERROR_WRITE_DATA
                   ELSE w1.fs.data = fs.data \o ExpectedBlock(fifo)

\* The quota has ended a session on a tick that logged its batch.
C5_QuotaEnded ==
    /\ last.ev = "EVENT_TICK"
    /\ last.page = PAGE_RECORDING
    /\ state.page = PAGE_LABELING
    /\ state.start_ts = 0
    /\ run.phase = "label"
    /\ run.blocks # <<>>

\* The bytes of one session in the layout of the log: the header (magic,
\* version, sensor snapshot, data-type flags, index, start timestamp), the
\* data blocks in tick order, the marker byte and the step count.
ExpectedSession(r) ==
    LE(LOG_MAGIC_BYTES, 2) \o <<LOG_VERSION>> \o DeviceState \o <<LOG_DATA_MAG>>
        \o <<r.index>> \o LE(r.start_ts, 4)
        \o Flatten([k \in 1..Len(r.blocks) |-> ExpectedBlock(r.blocks[k])], 1)
        \o <<LOG_FILE_MARKER>> \o LE(r.steps, 2)

\* A reader of the layout: little-endian fields, data blocks up to the
\* marker byte.
RECURSIVE FromLE(_)
FromLE(bytes) ==
    IF bytes = <<>> THEN 0 ELSE Head(bytes) + 256 * FromLE(Tail(bytes))

RECURSIVE ParseBlocks(_, _)
ParseBlocks(bytes, p) ==
    IF p > Len(bytes) \/ bytes[p] = LOG_FILE_MARKER
    THEN [blocks |-> <<>>, pos |-> p]
    ELSE LET n == bytes[p]
             mags == [k \in 1..n |-> FromLE(SubSeq(bytes, p + 3 * k - 2, p + 3 * k))]
             rest == ParseBlocks(bytes, p + 1 + 3 * n)
         IN  [blocks |-> <<mags>> \o rest.blocks, pos |-> rest.pos]

ParseSession(bytes) ==
    LET d == Len(DeviceState)
        body == ParseBlocks(bytes, d + 10)
    IN  [magic |-> FromLE(SubSeq(bytes, 1, 2)),
         version |-> bytes[3],
         device |-> SubSeq(bytes, 4, d + 3),
         data_type |-> bytes[d + 4],
         index |-> bytes[d + 5],
         start_ts |-> FromLE(SubSeq(bytes, d + 6, d + 9)),
         mags |-> body.blocks,
         steps |-> FromLE(SubSeq(bytes, body.pos + 1, body.pos + 2)),
         length |-> body.pos + 2]

\* The bytes the session in run has appended to the log.
Appended == SubSeq(fs.data, run.off + 1, Len(fs.data))

\* C6: after an error-free run "start, ticks delivering batches, stop, label
\* s steps, commit" the bytes appended to the log are the header, the data
\* blocks in tick order (count byte, then one 3-byte little-endian magnitude
\* per sample), the marker byte 0xFF and s in 2 bytes; reading them back per
\* the layout gives the header fields, every magnitude and s.
C6_LogLayoutRoundTrip ==
    run.phase = "done" =>
        /\ Appended = ExpectedSession(run)
        /\ ParseSession(Appended) =
              [magic |-> LOG_MAGIC_BYTES,
               version |-> LOG_VERSION,
               device |-> DeviceState,
               data_type |-> LOG_DATA_MAG,
               index |-> run.index,
               start_ts |-> run.start_ts,
               mags |-> [b \in 1..Len(run.blocks) |->
                           [k \in 1..Len(run.blocks[b]) |-> fast_l2_norm(run.blocks[b][k])]],
               steps |-> run.steps,
               length |-> Len(Appended)]

\* A session of two data blocks with a nonzero step count has been committed.
C6_TwoBlocksCommitted ==
    /\ run.phase = "done"
    /\ Len(run.blocks) = 2
    /\ run.steps > 0
    /\ last.ev = "EVENT_MODE_BUTTON_UP"

\* C7: between events, start_ts is nonzero if and only if the log file handle
\* is open, also after a failed open, a failed header write and a failed
\* step-marker commit.
C7_StartTsIffOpen ==
    (state.start_ts # 0) <=> (state.file = "open")

\* C8: after resign returns, no recording session is open (start_ts = 0, log
\* file closed), no transmission is in progress (chirping false, buffer
\* released, cursor and length 0) and the accelerometer FIFO is disabled.
C8_ResignReleasesAll ==
    last.ev = "resign" =>
        /\ state.start_ts = 0
        /\ state.file = "closed"
        /\ ~state.chirping
        /\ chirp_data_ptr = NULL
        /\ chirp_data_ix = 0
        /\ chirp_data_len = 0
        /\ ~hw.fifo

\* C9: after face activation the error code is 0; after every event that
\* enters a page without a failure of its own the error code is 0; no event
\* that stays on the page resets a nonzero error code to 0.
C9_ErrorClearedOnEntry ==
    /\ last.ev = "activate" => state.error = 0
    /\ active =>
         \A event \in Events : \A fifo \in BatchesShort :
         \A o \in EnvOracles(event, "rough") :
             LET w1 == After(event, fifo, o)
             IN  /\ (w1.state.page # state.page /\ ~w1.failed) => w1.state.error = 0
                 /\ (w1.state.page = state.page /\ state.error # 0) => w1.state.error # 0

\* C10: in Chirping, from any scheduler state, a mode-button release moves to
\* Recording and leaves the scheduler Idle with the buffer released and the
\* log file untouched; a LIGHT long-press moves to Recording, leaves the
\* scheduler Idle with the buffer released and removes the log file, a
\* failing remove being ignored without an error code.
C10_ChirpingExits ==
    (active /\ state.page = PAGE_CHIRPING) =>
        /\ LET w1 == After("EVENT_MODE_BUTTON_UP", <<>>, Calm)
           IN  /\ w1.state.page = PAGE_RECORDING
               /\ Released(w1)
               /\ w1.heap.live = heap.live \ {chirp_data_ptr}
               /\ w1.fs = fs
               /\ w1.state.error = state.error
        /\ \A o \in EnvOracles("EVENT_LIGHT_LONG_PRESS", "calm") :
               LET w1 == After("EVENT_LIGHT_LONG_PRESS", <<>>, o)
               IN  /\ w1.state.page = PAGE_RECORDING
                   /\ Released(w1)
                   /\ w1.heap.live = heap.live \ {chirp_data_ptr}
                   /\ (o.rm => ~w1.fs.exists)
                   /\ (~o.rm => w1.fs = fs)
                   /\ w1.state.error = state.error

\* A LIGHT long-press has cancelled a running transmission and removed the
\* log file.
C10_CancelledAndRemoved ==
    /\ last.ev = "EVENT_LIGHT_LONG_PRESS"
    /\ last.page = PAGE_CHIRPING
    /\ last.sched = "Transmitting"
    /\ state.page = PAGE_RECORDING
    /\ ~fs.exists

\* C11: in Recording an ALARM release toggles the session. With no recording
\* active the page stays Recording, the FIFO is cleared, start_ts becomes the
\* current time and, the filesystem calls succeeding, the file is open and
\* the header has been appended; with a recording active the file is closed,
\* start_ts becomes 0, index grows by 1 modulo 256, the page becomes Labeling
\* and 4 Hz ticks are requested.
C11_AlarmToggles ==
    (active /\ state.page = PAGE_RECORDING) =>
        \A o \in EnvOracles("EVENT_ALARM_BUTTON_UP", "clock") :
            LET w1 == After("EVENT_ALARM_BUTTON_UP", <<>>, o)
                wrap == _stop_recording([Here EXCEPT !.state.index = 255])
            IN  IF state.start_ts = 0
                THEN /\ w1.state.page = PAGE_RECORDING
                     /\ w1.cleared
                     /\ w1.state.start_ts = o.now
                     /\ w1.state.index = state.index
                     /\ ~w1.failed =>
                           /\ w1.state.file = "open"
                           /\ w1.state.error = state.error
                           /\ w1.fs.data = fs.data \o LE(LOG_MAGIC_BYTES, 2)
                                 \o <<LOG_VERSION>> \o DeviceState
                                 \o <<state.data_type, state.index>> \o LE(o.now, 4)
                ELSE /\ w1.state.file = "closed"
                     /\ w1.state.start_ts = 0
                     /\ w1.state.index = (state.index + 1) % 256
                     /\ w1.state.page = PAGE_LABELING
                     /\ w1.hw.tick_freq = 4
                     /\ w1.fs = fs
                     /\ wrap.state.index = 0

\* A session was started and an ALARM release has stopped it.
C11_Stopped ==
    /\ last.ev = "EVENT_ALARM_BUTTON_UP"
    /\ last.page = PAGE_RECORDING
    /\ state.page = PAGE_LABELING
    /\ state.index = 2
    /\ run.phase = "label"
    /\ Len(fs.data) >= 10

\* C12: a mode-button release in Labeling appends the marker byte and the
\* 2-byte step count to the log, closes the file and resets the pending step
\* count to 0; the page becomes Recording with 1 Hz ticks requested; when a
\* write is short the error code is WriteData.
C12_CommitSteps ==
    (active /\ state.page = PAGE_LABELING) =>
        \A o \in EnvOracles("EVENT_MODE_BUTTON_UP", "rough") :
            LET w1 == After("EVENT_MODE_BUTTON_UP", <<>>, o)
            IN  /\ w1.state.page = PAGE_RECORDING
                /\ w1.hw.tick_freq = 1
                /\ IF w1.failed
                   THEN w1.state.error = ERROR_WRITE_DATA
                   ELSE /\ w1.fs.data = fs.data \o <<LOG_FILE_MARKER>> \o LE(state.steps, 2)
                        /\ w1.state.file = "closed"
                        /\ w1.state.steps = 0
                        /\ w1.state.error = state.error

\* A nonzero step count has been committed.
C12_Committed ==
    /\ last.ev = "EVENT_MODE_BUTTON_UP"
    /\ last.page = PAGE_LABELING
    /\ state.page = PAGE_RECORDING
    /\ run.phase = "done"
    /\ run.steps > 0
    /\ state.steps = 0

\* C13: no two operations hold the log file open at the same time: whenever
\* the next event would open the log (an ALARM release in Recording with no
\* session, a MODE release in Labeling) or read it for transmission (the tick
\* that ends the countdown), no earlier handle is still open; and the
\* step-marker commit has closed its handle when its handler returns,
\* whatever the outcome of its writes.
C13_SingleHolder ==
    active =>
        /\ (state.page = PAGE_RECORDING /\ state.start_ts = 0) => state.file = "closed"
        /\ state.page = PAGE_LABELING =>
              /\ state.file = "closed"
              /\ \A o \in EnvOracles("EVENT_MODE_BUTTON_UP", "rough") :
                    After("EVENT_MODE_BUTTON_UP", <<>>, o).state.file = "closed"
        /\ ( /\ state.chirping
             /\ state.chirpy_tick_state.tick_fun = TF_COUNTDOWN
             /\ state.chirpy_tick_state.seq_pos = 8 * 3 ) => state.file = "closed"

\* C14: in Chirping an ALARM release starts or stops the transmission: with
\* the scheduler Idle it starts the countdown, with a transmission in progress
\* (Countdown or Transmitting) it returns the scheduler to Idle.
C14_AlarmStartsOrStops ==
    (active /\ state.page = PAGE_CHIRPING) =>
        LET w1 == After("EVENT_ALARM_BUTTON_UP", <<>>, Calm)
        IN  IF ~state.chirping
            THEN /\ w1.state.chirping
                 /\ w1.state.chirpy_tick_state.tick_fun = TF_COUNTDOWN
            ELSE ~w1.state.chirping

\* The world a handler left, as the next event finds it under oracle o.
Then(w, o) ==
    [w EXCEPT !.oracle = o, !.ret = 0, !.acc = 0, !.err = FALSE, !.byte = 0,
              !.sent = <<>>, !.failed = FALSE, !.cleared = FALSE]

\* The whole fields of a batch's block that precede a failed write: nothing,
\* or the count byte and k magnitudes, short of the whole block.
WholeFields(fifo) ==
    {<<>>} \cup {SubSeq(ExpectedBlock(fifo), 1, 1 + 3 * k) : k \in 0..(Len(fifo) - 1)}

\* C15: a data write failure aborts the batch, not the session: after a short
\* write of a non-empty batch on a Recording tick the error code is WriteData,
\* no field after the failed one is written, the recording stays active
\* (start_ts nonzero, page Recording, file open), and the next tick's
\* non-empty batch is written in full when its writes succeed.
C15_BatchAbortOnly ==
    (active /\ state.page = PAGE_RECORDING /\ state.start_ts # 0) =>
        \A fifo \in BatchesLong, o \in EnvOracles("EVENT_TICK", "rough") :
            LET w1 == After("EVENT_TICK", fifo, o)
            IN  w1.failed =>
                  /\ w1.state.error = ERROR_WRITE_DATA
                  /\ \E part \in WholeFields(fifo) : w1.fs.data = fs.data \o part
                  /\ w1.state.start_ts # 0
                  /\ w1.state.page = PAGE_RECORDING
                  /\ w1.state.file = "open"
                  /\ \A next \in BatchesLong, o2 \in EnvOracles("EVENT_TICK", "rough") :
                        LET w2 == stepcounter_logging_face_loop(Then(w1, o2), "EVENT_TICK", next)
                        IN  ~w2.failed => w2.fs.data = w1.fs.data \o ExpectedBlock(next)

\* C16: when _start_recording writes fewer bytes than the header's size, the
\* error code is WriteHeader, the file is left open and the recording counts
\* as active (start_ts nonzero, page Recording); the next ALARM release ends
\* the session (file closed, start_ts = 0) and moves to Labeling; no handler
\* writes the header again on its own.
C16_ShortHeader ==
    (active /\ state.page = PAGE_RECORDING /\ state.start_ts = 0) =>
        \A o \in EnvOracles("EVENT_ALARM_BUTTON_UP", "rough") :
            LET w1 == After("EVENT_ALARM_BUTTON_UP", <<>>, o)
                tick == stepcounter_logging_face_loop(Then(w1, Calm), "EVENT_TICK", <<>>)
                w2 == stepcounter_logging_face_loop(Then(w1, Calm), "EVENT_ALARM_BUTTON_UP", <<>>)
            IN  w1.acc # SumLen(HeaderFields(w1), 1) =>
                  /\ w1.state.error = ERROR_WRITE_HEADER
                  /\ w1.state.file = "open"
                  /\ w1.state.start_ts # 0
                  /\ w1.state.page = PAGE_RECORDING
                  /\ tick.fs.data = w1.fs.data
                  /\ w2.fs.data = w1.fs.data
                  /\ w2.state.file = "closed"
                  /\ w2.state.start_ts = 0
                  /\ w2.state.page = PAGE_LABELING

\* The three axes' absolute values, largest first.
Abs(v) == IF v < 0 THEN -v ELSE v
Largest(r) == Max(Abs(r.x), Max(Abs(r.y), Abs(r.z)))
SumOfSquares(r) == r.x * r.x + r.y * r.y + r.z * r.z

\* C17: for every sample the approximate L2 norm a + floor(15*b/16) +
\* floor(3*c/8) of the sorted absolute values a >= b >= c exceeds the true
\* norm sqrt(a^2 + b^2 + c^2) by no more than 6 percent (compared in squares:
\* (100 * norm)^2 <= 106^2 * (a^2 + b^2 + c^2)), and it equals a when b = c = 0.
C17_NormWithinSixPercent ==
    norm # -1 =>
        /\ (100 * norm) * (100 * norm) <= 106 * 106 * SumOfSquares(sample)
        /\ SumOfSquares(sample) = Largest(sample) * Largest(sample) => norm = Largest(sample)

\* C18: the transmission buffer never leaks: at any time at most one buffer
\* is allocated and it is the one chirp_data_ptr holds, no buffer is freed
\* twice, and whenever the scheduler is Idle the pointer is null and cursor
\* and length are 0.
C18_BufferNeverLeaks ==
    /\ Cardinality(heap.live) <= 1
    /\ heap.live \subseteq {chirp_data_ptr}
    /\ ~heap.bad_free
    /\ ~state.chirping =>
          /\ chirp_data_ptr = NULL
          /\ chirp_data_ix = 0
          /\ chirp_data_len = 0

\* The tick divider lets the next tick call tick_fun.
Firing == state.chirpy_tick_state.tick_count + 1 = state.chirpy_tick_state.tick_compare

\* The handler touched nothing but the given tick state.
OnlyTickState(w, ts) ==
    /\ w.state = [state EXCEPT !.chirpy_tick_state = ts]
    /\ w.hw = hw /\ w.heap = heap /\ w.fs = fs
    /\ w.chirp_data_ptr = chirp_data_ptr
    /\ w.chirp_data_ix = chirp_data_ix
    /\ w.chirp_data_len = chirp_data_len

\* C19: the countdown runs through the tick positions 0..23: a firing at
\* position 0, 8 or 16 switches the alert tone on, one at 1, 9 or 17 switches
\* the sound off, any other changes nothing, and each moves to the next
\* position; the firing after position 23 initialises the encoder, loads the
\* log file and enters Transmitting with the tick divider 3, and from then on
\* tick_fun is called on every third tick.
C19_Countdown ==
    (active /\ state.page = PAGE_CHIRPING /\ state.chirping) =>
        \A o \in EnvOracles("EVENT_TICK", "load") :
            LET w1 == After("EVENT_TICK", <<>>, o)
                ts == state.chirpy_tick_state
                p == ts.seq_pos
            IN  /\ ~Firing => OnlyTickState(w1, [ts EXCEPT !.tick_count = @ + 1])
                /\ Sched(state) = "Transmitting" =>
                      /\ ts.tick_compare = 3
                      /\ Firing =>
                            \/ ~w1.state.chirping
                            \/ /\ w1.state.chirpy_tick_state = [ts EXCEPT !.tick_count = 0]
                               /\ w1.state.chirpy_encoder_state # state.chirpy_encoder_state
                /\ Sched(state) = "Countdown" =>
                      /\ ts.tick_compare = 8
                      /\ p \in 0..24
                      /\ (Firing /\ p < 24) =>
                            /\ w1.state = [state EXCEPT !.chirpy_tick_state.tick_count = 0,
                                                        !.chirpy_tick_state.seq_pos = p + 1]
                            /\ w1.hw.buzzer = IF p \in {0, 8, 16} THEN TRUE
                                              ELSE IF p \in {1, 9, 17} THEN FALSE
                                              ELSE hw.buzzer
                            /\ w1.hw.tick_freq = hw.tick_freq
                            /\ w1.heap = heap /\ w1.fs = fs
                            /\ w1.chirp_data_ptr = chirp_data_ptr
                      /\ (Firing /\ p = 24) =>
                            /\ Sched(w1.state) = "Transmitting"
                            /\ w1.state.chirpy_tick_state =
                                  [tick_count |-> -1, tick_compare |-> 3,
                                   seq_pos |-> 0, tick_fun |-> TF_TRANSMIT]
                            /\ w1.state.chirpy_encoder_state = [tones |-> PreambleTones, eot |-> FALSE]
                            /\ w1.hw = hw
                            /\ (fs.exists /\ o.mem /\ FreeBlocks(Here) # {} /\ o.rd) =>
                                  /\ w1.chirp_data_ptr # NULL
                                  /\ w1.heap.mem[w1.chirp_data_ptr] = fs.data
                                  /\ w1.chirp_data_len = Len(fs.data)

\* The countdown has run out and the log file is in the buffer.
C19_EnteredTransmitting ==
    /\ last.ev = "EVENT_TICK"
    /\ last.sched = "Countdown"
    /\ Sched(state) = "Transmitting"
    /\ state.chirpy_tick_state.tick_count = -1
    /\ chirp_data_ptr # NULL
    /\ heap.mem[chirp_data_ptr] = OldLog

\* C20: the byte-supply callback returns "exists" with the buffer's byte at
\* the cursor and advances the cursor by 1, or, exactly when the cursor is at
\* the length, returns "not exists" and leaves the cursor; the cursor stays
\* within 0..length; and a transmission supplies the buffer's bytes in order,
\* each once: it starts with the cursor at the first byte.
C20_ByteSupply ==
    /\ 0 <= chirp_data_ix /\ chirp_data_ix <= chirp_data_len
    /\ (active /\ Sched(state) = "Transmitting") =>
          LET w1 == _chirp_next_byte(Here)
          IN  IF chirp_data_ix = chirp_data_len
              THEN w1.ret = 0 /\ w1.chirp_data_ix = chirp_data_ix
              ELSE /\ w1.ret = 1
                   /\ w1.chirp_data_ix = chirp_data_ix + 1
                   /\ chirp_data_ptr # NULL
                   /\ w1.byte = heap.mem[chirp_data_ptr][chirp_data_ix + 1]
    /\ JustLoaded => chirp_data_ix = 0

\* C21: a transmission is in progress only on the Chirping page, also after
\* the face has resigned; and the ALARM long-press in Recording enters
\* Chirping with 1 Hz ticks requested and the scheduler Idle, no buffer
\* allocated.
C21_IdleOutsideChirping ==
    /\ state.chirping => state.page = PAGE_CHIRPING
    /\ LET r == stepcounter_logging_face_resign(Here)
       IN  r.state.chirping => r.state.page = PAGE_CHIRPING
    /\ (active /\ state.page = PAGE_RECORDING) =>
          LET w1 == After("EVENT_ALARM_LONG_PRESS", <<>>, Calm)
          IN  /\ w1.state.page = PAGE_CHIRPING
              /\ w1.hw.tick_freq = 1
              /\ ~w1.state.chirping
              /\ w1.chirp_data_ptr = NULL
              /\ w1.heap = heap

\* Chirping has been entered again after a transmission was cancelled.
C21_EnteredChirping ==
    /\ last.ev = "EVENT_ALARM_LONG_PRESS"
    /\ last.page = PAGE_RECORDING
    /\ state.page = PAGE_CHIRPING
    /\ ~state.chirping
    /\ state.chirpy_tick_state.tick_fun # TF_NONE

\* C22: whenever the scheduler enters Transmitting (the firing that ends the
\* countdown) the cursor is 0 afterwards, also when the countdown was
\* restarted while an earlier transmission was under way.
C22_CursorZeroOnEntry ==
    ( /\ active /\ state.page = PAGE_CHIRPING
      /\ Sched(state) = "Countdown"
      /\ Firing
      /\ state.chirpy_tick_state.seq_pos = 8 * 3 ) =>
        \A o \in EnvOracles("EVENT_TICK", "load") :
            LET w1 == After("EVENT_TICK", <<>>, o)
            IN  /\ Sched(w1.state) = "Transmitting"
                /\ w1.chirp_data_ix = 0

\* C23: the byte-supply callback never reads through a null pointer: in
\* every state in which the scheduler is Transmitting, a null buffer pointer
\* comes with the cursor at the length.
C23_NoNullRead ==
    (Sched(state) = "Transmitting" /\ chirp_data_ptr = NULL) =>
        chirp_data_ix = chirp_data_len

\* C24: the log file is never removed while a recording session is open: in
\* every state in which the LIGHT long-press would run the delete operation
\* (the face active on Chirping), start_ts is 0 and the log file handle is
\* closed.
C24_NoDeleteWhileRecording ==
    (active /\ state.page = PAGE_CHIRPING) =>
        /\ state.start_ts = 0
        /\ state.file = "closed"

\* The tick frequency requested last is the one of the mode.
RateOfMode(w) ==
    w.hw.tick_freq = IF w.state.chirping THEN 64
                     ELSE IF w.state.page = PAGE_LABELING THEN 4
                     ELSE 1

\* C25: the tick frequency requested last is a function of the mode: 64 Hz
\* exactly when a transmission is in progress, 4 Hz exactly on Labeling, 1 Hz
\* otherwise. It holds in every reachable state, after every event delivered
\* in it, and after every event or resign that follows that event (a
\* transmission started and then cancelled, restarted or resigned from).
C25_RateOfMode ==
    /\ RateOfMode(Here)
    /\ RateOfMode(stepcounter_logging_face_resign(Here))
    /\ active =>
          \A e1 \in Events : \A o \in EnvOracles(e1, "rough") :
              LET w1 == After(e1, <<>>, o)
              IN  /\ RateOfMode(w1)
                  /\ RateOfMode(stepcounter_logging_face_resign(Then(w1, Calm)))
                  /\ \A e2 \in Events :
                        RateOfMode(stepcounter_logging_face_loop(Then(w1, Calm), e2, <<>>))

\* After a session was labeled at 4 Hz the face is on Chirping at 1 Hz, and
\* an ALARM release there requests 64 Hz.
C25_AllRates ==
    /\ active
    /\ last.ev = "EVENT_ALARM_LONG_PRESS"
    /\ state.page = PAGE_CHIRPING
    /\ state.index = 2
    /\ hw.tick_freq = 1
    /\ After("EVENT_ALARM_BUTTON_UP", <<>>, Calm).hw.tick_freq = 64

====
